---- MODULE Spec2Model ----
(***************************************************************************)
(* Model of net/icmpv6/icmpv6_input.c: the ICMPv6 input handler of the     *)
(* NuttX network stack.  One packet buffer (dev->d_buf, dev->d_len) is     *)
(* filled by the receive path, icmpv6_input() rewrites it in place or      *)
(* drops it, and the statistics, the neighbor table and the echo-reply     *)
(* callback chain see the side effects.                                    *)
(*                                                                         *)
(* Build configuration modelled: CONFIG_NET_STATISTICS, CONFIG_NET_ETHERNET,*)
(* CONFIG_NET_MULTILINK and CONFIG_NET_ICMPv6v6_PING all defined.           *)
(*                                                                         *)
(* Offsets and lengths are counted from the first byte of the IPv6 header: *)
(* IPv6 header 0..39, type/code/checksum 40..43, flags and reserved bytes  *)
(* 44..47, icmpv6data 48..63, options 64..71, anything further 72..79.     *)
(***************************************************************************)
EXTENDS Integers, Sequences, FiniteSets, TLC

(* ------------------------------ bounds --------------------------------- *)

\* number of packets handed to icmpv6_input in one behaviour
MaxPackets == 2

(* ------------------------- protocol constants -------------------------- *)

\* The source names these; their values are those of the protocol
\* (RFC 4443, RFC 4861) and of the packed header struct icmpv6_iphdr_s.

ICMPv6_ECHO_REQUEST == 128
ICMPv6_ECHO_REPLY == 129
ICMPv6_NEIGHBOR_SOLICIT == 135
ICMPv6_NEIGHBOR_ADVERTISE == 136

ICMPv6_FLAG_S == 64

ICMPv6_OPTION_SOURCE_LINK_ADDRESS == 1
ICMPv6_OPTION_TARGET_LINK_ADDRESS == 2

\* the event bit handed to the echo-reply callback chain (one bit of a
\* 16-bit flag word; which bit does not matter to the handler)
ICMPv6_ECHOREPLY == 512

IFHWADDRLEN == 6
IP_PROTO_ICMP6 == 58
IPv6_HDRLEN == 40

\* offset of options[0] and end of an 8-byte option stored there
ICMPv6_OPT_OFFSET == 64
ICMPv6_OPT_END == 72

NET_LL_ETHERNET == 0
NET_LL_SLIP == 1

\* the callback chain is a list of waiters; the NULL pointer is the empty list
NULL == <<>>

(* ------------------------------ addresses ------------------------------ *)

\* IPv6 addresses are eight 16-bit words, hardware addresses six bytes
OwnAddr == <<65152, 0, 0, 0, 0, 0, 0, 1>>
PeerAddr == <<65152, 0, 0, 0, 0, 0, 0, 2>>
OtherAddr == <<65152, 0, 0, 0, 0, 0, 0, 3>>
McastAddr == <<65282, 0, 0, 0, 0, 1, 65280, 1>>

OwnMac == <<2, 0, 0, 0, 0, 1>>
PeerMac == <<2, 0, 0, 0, 0, 2>>
OtherMac == <<2, 0, 0, 0, 0, 3>>

\* an 8-byte option: type, length in units of 8 bytes, six value bytes
Option(t, l, hw) == <<t, l>> \o hw

ZeroOption == <<0, 0, 0, 0, 0, 0, 0, 0>>

(* ------------------------- inputs of the model -------------------------- *)

\* source and destination address of a received packet
InAddrs == {<<PeerAddr, OwnAddr>>, <<OwnAddr, McastAddr>>, <<OwnAddr, OwnAddr>>}

InTargets == {OwnAddr, OtherAddr}

InOptions ==
  {Option(ICMPv6_OPTION_SOURCE_LINK_ADDRESS, 1, PeerMac),
   Option(ICMPv6_OPTION_SOURCE_LINK_ADDRESS, 1, OtherMac),
   Option(ICMPv6_OPTION_SOURCE_LINK_ADDRESS, 0, PeerMac),
   Option(14, 1, OtherMac)}

\* Ethernet destination and source of the received frame
InEth == {<<OwnMac, PeerMac>>, <<OwnMac, OtherMac>>}

\* declared lengths: IPv6 header only (no ICMPv6 byte), no option, one
\* option, two options
InLens == {40, 64, 72, 80}

\* a received packet: the buffer fields and the declared length.  h is the
\* four bytes after the checksum (flags and reserved bytes of a solicitation,
\* identifier and sequence number of an echo); the bytes from offset 72 on
\* hold a second option when the declared length covers them.
Packet(t, ad, tg, h, o, e, l) ==
  [buf |-> [ethdest |-> e[1], ethsrc |-> e[2],
            srcipaddr |-> ad[1], destipaddr |-> ad[2],
            type |-> t, icode |-> 0, icmpv6chksum |-> 48879,
            flags |-> h[1], reserved1 |-> h[2],
            reserved2 |-> h[3], reserved3 |-> h[4],
            icmpv6data |-> tg, options |-> o,
            tail |-> IF l > 72
                     THEN Option(ICMPv6_OPTION_SOURCE_LINK_ADDRESS, 1, PeerMac)
                     ELSE ZeroOption],
   len |-> l]

InSolicits ==
  {Packet(ICMPv6_NEIGHBOR_SOLICIT, ad, tg, <<18, 52, 0, 7>>, o, e, l) :
     ad \in InAddrs, tg \in InTargets, o \in InOptions, e \in InEth, l \in InLens}

InEchoRequests ==
  {Packet(ICMPv6_ECHO_REQUEST, ad, tg, h, Option(97, 98, PeerMac),
          <<OwnMac, PeerMac>>, l) :
     ad \in InAddrs, tg \in InTargets, h \in {<<0, 0, 0, 0>>, <<18, 52, 0, 7>>},
     l \in {40, 44, 72}}

InEchoReplies ==
  {Packet(ICMPv6_ECHO_REPLY, ad, OtherAddr, h, Option(97, 98, PeerMac),
          <<OwnMac, PeerMac>>, l) :
     ad \in InAddrs, h \in {<<0, 0, 0, 0>>, <<18, 52, 0, 7>>}, l \in {44, 72}}

InOthers ==
  {Packet(t, ad, OwnAddr, <<18, 52, 0, 7>>,
          Option(ICMPv6_OPTION_SOURCE_LINK_ADDRESS, 1, PeerMac),
          <<OwnMac, PeerMac>>, l) :
     t \in {ICMPv6_NEIGHBOR_ADVERTISE, 200}, ad \in InAddrs, l \in {40, 72}}

InPackets == InSolicits \cup InEchoRequests \cup InEchoReplies \cup InOthers

LinkTypes == {NET_LL_ETHERNET, NET_LL_SLIP}

\* a ping waiter: the identifier (two bytes) it waits for, and whether it
\* truncates the buffer when it consumes a reply
Waiters == {[id |-> <<18, 52>>, consume |-> c] : c \in BOOLEAN}

(* -------------------------------- state -------------------------------- *)

VARIABLES
  pc,             \* "wait", "input" (packet in d_buf), "done" (handler returned)
  d_buf,          \* the packet buffer, as the fields of eth_hdr_s + icmpv6_iphdr_s
  d_len,          \* dev->d_len
  d_flags,        \* dev->d_flags: TRUE when the IPv6 bit is set
  d_lltype,       \* dev->d_lltype
  g_netstats,     \* statistics counters
  g_echocallback, \* head of the echo-reply callback chain
  inp,            \* the packet, length and callback chain at entry (history)
  pre,            \* g_netstats when the handler was entered (history)
  neighbor_calls, \* net_neighbor_add calls of the current invocation
  callback_calls, \* devif_callback_execute calls of the current invocation:
                  \* flags passed, flags returned, d_len left by the chain
  rd_end          \* end offset of the furthest packet byte the handler read

vars ==
  <<pc, d_buf, d_len, d_flags, d_lltype, g_netstats, g_echocallback, inp, pre,
    neighbor_calls, callback_calls, rd_end>>

d_ipv6addr == OwnAddr
d_mac == OwnMac

ZeroStats == [recv |-> 0, sent |-> 0, ipsent |-> 0, typeerr |-> 0, drop |-> 0]

EmptyBuf ==
  [ethdest |-> OwnMac, ethsrc |-> OwnMac,
   srcipaddr |-> OwnAddr, destipaddr |-> OwnAddr,
   type |-> 0, icode |-> 0, icmpv6chksum |-> 0,
   flags |-> 0, reserved1 |-> 0, reserved2 |-> 0, reserved3 |-> 0,
   icmpv6data |-> OwnAddr, options |-> ZeroOption, tail |-> ZeroOption]

Init ==
  /\ pc = "wait"
  /\ d_buf = EmptyBuf
  /\ d_len = 0
  /\ d_flags = FALSE
  /\ d_lltype \in LinkTypes
  /\ g_netstats = ZeroStats
  /\ g_echocallback = NULL
  /\ inp = [buf |-> EmptyBuf, len |-> 0, cb |-> NULL]
  /\ pre = ZeroStats
  /\ neighbor_calls = <<>>
  /\ callback_calls = <<>>
  /\ rd_end = 0

(* ----------------------------- helpers --------------------------------- *)

\* options[i] with the index of the C array (0-based)
opt(icmp, i) == icmp.options[i + 1]

Bytes2Words(bs) == [i \in 1..(Len(bs) \div 2) |-> bs[2 * i - 1] * 256 + bs[2 * i]]

\* 16-bit one's-complement addition (end-around carry)
Add16(a, b) == LET s == a + b IN IF s > 65535 THEN s - 65535 ELSE s

\* one's-complement sum of ws[lo..hi], halving the range to keep the
\* evaluation shallow (the addition is associative and commutative)
RECURSIVE SumRange(_, _, _)
SumRange(ws, lo, hi) ==
  IF lo > hi THEN 0
  ELSE IF lo = hi THEN ws[lo]
  ELSE LET mid == (lo + hi) \div 2
       IN  Add16(SumRange(ws, lo, mid), SumRange(ws, mid + 1, hi))

Sum16(ws) == SumRange(ws, 1, Len(ws))

Not16(w) == 65535 - w

\* the ICMPv6 message as 16-bit words, cut at the upper-layer length
MessageWords(icmp, len) ==
  LET all ==
        <<icmp.type * 256 + icmp.icode, icmp.icmpv6chksum,
          icmp.flags * 256 + icmp.reserved1,
          icmp.reserved2 * 256 + icmp.reserved3>>
        \o icmp.icmpv6data \o Bytes2Words(icmp.options) \o Bytes2Words(icmp.tail)
  IN  SubSeq(all, 1, (len - IPv6_HDRLEN) \div 2)

\* IPv6 pseudo-header: source, destination, upper-layer length, next header
PseudoWords(icmp, len) ==
  icmp.srcipaddr \o icmp.destipaddr \o <<0, len - IPv6_HDRLEN, 0, IP_PROTO_ICMP6>>

\* one's-complement sum over pseudo-header + message, never returned as zero
icmpv6_chksum(icmp, len) ==
  LET sum == Sum16(PseudoWords(icmp, len) \o MessageWords(icmp, len))
  IN  IF sum = 0 THEN 65535 ELSE sum

\* validation of a message as a receiver performs it
ChecksumValid(icmp, len) ==
  Sum16(PseudoWords(icmp, len) \o MessageWords(icmp, len)) = 65535

(* -------------------- the pieces of icmpv6_input ----------------------- *)

\* variant: the last word of the addresses is left out of the comparison
net_ipv6addr_cmp_short(a, b) == \A i \in 1..7 : a[i] = b[i]

\* net_ipv6addr_cmp: all eight words equal
net_ipv6addr_cmp(a, b) == \A i \in 1..8 : a[i] = b[i]

\* variant: only the 64-bit prefix of the target is compared
TargetIsOurs_prefix(icmp) ==
  \A i \in 1..4 : icmp.icmpv6data[i] = d_ipv6addr[i]

\* variant: the target of the solicitation is not tested
TargetIsOurs_always(icmp) == TRUE

\* the solicitation asks for our address
TargetIsOurs(icmp) == net_ipv6addr_cmp(icmp.icmpv6data, d_ipv6addr)

\* variant: any option with a non-zero type is taken as the sender's
\* link-layer address
HasSourceLinkOption_any(icmp) == opt(icmp, 0) # 0

\* the first option is a source link-layer address option
HasSourceLinkOption(icmp) == opt(icmp, 0) = ICMPv6_OPTION_SOURCE_LINK_ADDRESS

\* the argument pair of net_neighbor_add: sender address, &options[2]
NeighborAddArgs(icmp) ==
  <<icmp.srcipaddr, [i \in 1..IFHWADDRLEN |-> opt(icmp, 1 + i)]>>

\* zero the checksum field, then store the complement of icmpv6_chksum
SetChecksum(icmp, len) ==
  LET z == [icmp EXCEPT !.icmpv6chksum = 0]
  IN  [z EXCEPT !.icmpv6chksum = Not16(icmpv6_chksum(z, len))]

\* variant: the source address is overwritten before it is copied
NeighborAdvertise_srcfirst(icmp, len) ==
  LET a == [icmp EXCEPT !.type = ICMPv6_NEIGHBOR_ADVERTISE,
                        !.flags = ICMPv6_FLAG_S,
                        !.reserved1 = 0,
                        !.reserved2 = 0,
                        !.reserved3 = 0,
                        !.srcipaddr = d_ipv6addr,
                        !.destipaddr = d_ipv6addr,
                        !.options = Option(ICMPv6_OPTION_TARGET_LINK_ADDRESS, 1, d_mac)]
  IN  SetChecksum(a, len)

\* rewrite of the solicitation into the advertisement
NeighborAdvertise(icmp, len) ==
  LET a == [icmp EXCEPT !.type = ICMPv6_NEIGHBOR_ADVERTISE,
                        !.flags = ICMPv6_FLAG_S,
                        !.reserved1 = 0,
                        !.reserved2 = 0,
                        !.reserved3 = 0,
                        !.destipaddr = icmp.srcipaddr,
                        !.srcipaddr = d_ipv6addr,
                        !.options = Option(ICMPv6_OPTION_TARGET_LINK_ADDRESS, 1, d_mac)]
  IN  SetChecksum(a, len)

\* variant: the link type is not tested
EthRewrite_nolltype(icmp, lltype) ==
  [icmp EXCEPT !.ethdest = icmp.ethsrc, !.ethsrc = d_mac]

\* Ethernet header of the advertisement, on an Ethernet link only
EthRewrite(icmp, lltype) ==
  IF lltype = NET_LL_ETHERNET
  THEN [icmp EXCEPT !.ethdest = icmp.ethsrc, !.ethsrc = d_mac]
  ELSE icmp

\* variant: the four bytes after the checksum are cleared as for an
\* advertisement
EchoReply_clearid(icmp, len) ==
  LET a == [icmp EXCEPT !.type = ICMPv6_ECHO_REPLY,
                        !.flags = 0,
                        !.reserved1 = 0,
                        !.reserved2 = 0,
                        !.reserved3 = 0,
                        !.destipaddr = icmp.srcipaddr,
                        !.srcipaddr = d_ipv6addr]
  IN  SetChecksum(a, len)

\* rewrite of the echo request into the echo reply
EchoReply(icmp, len) ==
  LET a == [icmp EXCEPT !.type = ICMPv6_ECHO_REPLY,
                        !.destipaddr = icmp.srcipaddr,
                        !.srcipaddr = d_ipv6addr]
  IN  SetChecksum(a, len)

\* the echo-reply branch is taken only with a callback registered
EchoDispatch(icmp, cb) == icmp.type = ICMPv6_ECHO_REPLY /\ cb # NULL

\* the callback chain: a waiter whose identifier matches the reply claims
\* it and clears the event bit, and may set d_len to 0 as it consumes the
\* packet; otherwise flags and length come back unchanged
devif_callback_execute(icmp, len, flags, cb) ==
  LET match == {i \in 1..Len(cb) : cb[i].id = <<icmp.flags, icmp.reserved1>>}
  IN  IF match # {}
      THEN [flags |-> flags - ICMPv6_ECHOREPLY,
            len |-> IF \E i \in match : cb[i].consume THEN 0 ELSE len]
      ELSE [flags |-> flags, len |-> len]

\* variant: the test of the returned flags is inverted
NotHandled_inverted(flags) == flags # ICMPv6_ECHOREPLY

\* the reply was not handled by any waiter
NotHandled(flags) == flags = ICMPv6_ECHOREPLY

StatsRecv(st) == [st EXCEPT !.recv = @ + 1]

\* variant: no return after the sent counters, the labels below are run too
StatsSent_fallthrough(st) ==
  [st EXCEPT !.sent = @ + 1, !.ipsent = @ + 1, !.typeerr = @ + 1, !.drop = @ + 1]

\* the common exit of the emitting paths
StatsSent(st) == [st EXCEPT !.sent = @ + 1, !.ipsent = @ + 1]

\* the drop label
StatsDrop(st) == [st EXCEPT !.drop = @ + 1]

\* variant: the typeerr label does not reach the drop counter
StatsTypeErr_nofall(st) == [st EXCEPT !.typeerr = @ + 1]

\* the typeerr label falls through into the drop label
StatsTypeErr(st) == StatsDrop([st EXCEPT !.typeerr = @ + 1])

\* variant: the drop label leaves d_len alone
DropLen_keep(len) == len

\* the drop label ends with dev->d_len = 0
DropLen(len) == 0

\* what one run of icmpv6_input leaves behind
Handle(icmp, len, lltype, st, cb) ==
  LET st1 == StatsRecv(st)
      rdtype == IPv6_HDRLEN + 1
  IN
  IF icmp.type = ICMPv6_NEIGHBOR_SOLICIT THEN
    IF TargetIsOurs(icmp) THEN
      [buf |-> EthRewrite(NeighborAdvertise(icmp, len), lltype),
       len |-> len,
       stats |-> StatsSent(st1),
       ncalls |-> IF HasSourceLinkOption(icmp)
                  THEN <<NeighborAddArgs(icmp)>> ELSE <<>>,
       ccalls |-> <<>>,
       rd |-> IF HasSourceLinkOption(icmp)
              THEN ICMPv6_OPT_END ELSE ICMPv6_OPT_OFFSET + 1]
    ELSE
      [buf |-> icmp, len |-> DropLen(len), stats |-> StatsDrop(st1),
       ncalls |-> <<>>, ccalls |-> <<>>, rd |-> ICMPv6_OPT_OFFSET]
  ELSE IF icmp.type = ICMPv6_ECHO_REQUEST THEN
    [buf |-> EchoReply(icmp, len), len |-> len, stats |-> StatsSent(st1),
     ncalls |-> <<>>, ccalls |-> <<>>, rd |-> rdtype]
  ELSE IF EchoDispatch(icmp, cb) THEN
    LET ret == devif_callback_execute(icmp, len, ICMPv6_ECHOREPLY, cb)
        call == [flags |-> ICMPv6_ECHOREPLY, ret |-> ret.flags, len |-> ret.len]
    IN
    IF NotHandled(ret.flags) THEN
      [buf |-> icmp, len |-> DropLen(ret.len), stats |-> StatsDrop(st1),
       ncalls |-> <<>>, ccalls |-> <<call>>, rd |-> rdtype]
    ELSE
      [buf |-> icmp, len |-> ret.len, stats |-> StatsSent(st1),
       ncalls |-> <<>>, ccalls |-> <<call>>, rd |-> rdtype]
  ELSE
    [buf |-> icmp, len |-> DropLen(len), stats |-> StatsTypeErr(st1),
     ncalls |-> <<>>, ccalls |-> <<>>, rd |-> rdtype]

(* ------------------------------ actions -------------------------------- *)

\* the receive path leaves an ICMPv6 packet in the buffer
Receive ==
  /\ pc \in {"wait", "done"}
  /\ g_netstats.recv < MaxPackets
  /\ \E p \in InPackets :
       /\ d_buf' = p.buf
       /\ d_len' = p.len
       /\ inp' = [buf |-> p.buf, len |-> p.len, cb |-> g_echocallback]
  /\ pre' = g_netstats
  /\ neighbor_calls' = <<>>
  /\ callback_calls' = <<>>
  /\ rd_end' = 0
  /\ d_flags' = FALSE
  /\ pc' = "input"
  /\ UNCHANGED <<d_lltype, g_netstats, g_echocallback>>

\* icmpv6_input(dev), from entry to return
icmpv6_input ==
  /\ pc = "input"
  /\ LET r == Handle(d_buf, d_len, d_lltype, g_netstats, g_echocallback)
     IN  /\ d_buf' = r.buf
         /\ d_len' = r.len
         /\ g_netstats' = r.stats
         /\ neighbor_calls' = r.ncalls
         /\ callback_calls' = r.ccalls
         /\ rd_end' = r.rd
  /\ d_flags' = TRUE
  /\ pc' = "done"
  /\ UNCHANGED <<d_lltype, g_echocallback, inp, pre>>

\* a ping waiter registers its callback on the chain
EchoCallbackAlloc ==
  /\ pc \in {"wait", "done"}
  /\ g_echocallback = NULL
  /\ \E w \in Waiters : g_echocallback' = <<w>>
  /\ UNCHANGED <<pc, d_buf, d_len, d_flags, d_lltype, g_netstats, inp, pre,
                 neighbor_calls, callback_calls, rd_end>>

\* the last ping waiter removes its callback from the chain
EchoCallbackFree ==
  /\ pc \in {"wait", "done"}
  /\ g_echocallback # NULL
  /\ g_echocallback' = NULL
  /\ UNCHANGED <<pc, d_buf, d_len, d_flags, d_lltype, g_netstats, inp, pre,
                 neighbor_calls, callback_calls, rd_end>>

Next == Receive \/ icmpv6_input \/ EchoCallbackAlloc \/ EchoCallbackFree

Spec == Init /\ [][Next]_vars

(* ------------------------------ claims --------------------------------- *)

Returned == pc = "done"

InType == inp.buf.type

\* the four bytes after the checksum and everything behind them
Body(b) ==
  <<b.flags, b.reserved1, b.reserved2, b.reserved3, b.icmpv6data, b.options,
    b.tail>>

SolicitForUs ==
  /\ Returned
  /\ InType = 135
  /\ inp.buf.icmpv6data = OwnAddr

\* the first option is a source link-layer option of length 1 that lies
\* inside the declared length
WellFormedSourceOption ==
  /\ inp.buf.options[1] = 1
  /\ inp.buf.options[2] = 1
  /\ inp.len >= 72

\* C1: a solicitation for our address with a well-formed source link-layer
\* option makes exactly one neighbor-table call (sender address, option's
\* hardware address) and comes back as a neighbor advertisement: flags =
\* Solicited only, reserved bytes zero, source = own address, destination =
\* the sender, one target link-layer option of length 1 with our own
\* hardware address.
C1_SolicitAnswered ==
  (SolicitForUs /\ WellFormedSourceOption) =>
    /\ neighbor_calls = << <<inp.buf.srcipaddr, SubSeq(inp.buf.options, 3, 8)>> >>
    /\ d_buf.type = 136
    /\ d_buf.flags = 64
    /\ d_buf.reserved1 = 0 /\ d_buf.reserved2 = 0 /\ d_buf.reserved3 = 0
    /\ d_buf.srcipaddr = OwnAddr
    /\ d_buf.destipaddr = inp.buf.srcipaddr
    /\ d_buf.options = <<2, 1>> \o OwnMac

C1_Witness ==
  /\ SolicitForUs /\ WellFormedSourceOption
  /\ inp.buf.srcipaddr = PeerAddr
  /\ neighbor_calls = << <<PeerAddr, OtherMac>> >>
  /\ d_buf.type = 136

\* C2: a solicitation for another address is dropped: length 0, no
\* neighbor-table call, dropped + 1, type_error and sent unchanged, packet
\* bytes untouched.
C2_MismatchDropped ==
  (Returned /\ InType = 135 /\ inp.buf.icmpv6data # OwnAddr) =>
    /\ d_len = 0
    /\ neighbor_calls = <<>>
    /\ g_netstats.drop = pre.drop + 1
    /\ g_netstats.typeerr = pre.typeerr
    /\ g_netstats.sent = pre.sent
    /\ g_netstats.ipsent = pre.ipsent
    /\ d_buf = inp.buf

C2_Witness ==
  /\ Returned /\ InType = 135 /\ inp.buf.icmpv6data = OtherAddr
  /\ inp.buf.options[1] = 1
  /\ d_len = 0 /\ g_netstats.drop = 1

\* C3: an echo request always comes back as an echo reply of the same,
\* non-zero length: destination = the sender, source = own address,
\* identifier, sequence number and payload untouched, dropped and type_error
\* unchanged.
C3_EchoAnswered ==
  (Returned /\ InType = 128) =>
    /\ d_len = inp.len /\ d_len # 0
    /\ d_buf.type = 129
    /\ d_buf.destipaddr = inp.buf.srcipaddr
    /\ d_buf.srcipaddr = OwnAddr
    /\ Body(d_buf) = Body(inp.buf)
    /\ g_netstats.drop = pre.drop
    /\ g_netstats.typeerr = pre.typeerr

C3_Witness ==
  /\ Returned /\ InType = 128
  /\ inp.buf.srcipaddr = PeerAddr /\ inp.buf.flags = 18
  /\ d_buf.type = 129 /\ d_buf.destipaddr = PeerAddr /\ d_buf.flags = 18

\* C4: on return the buffer is either of length zero or a complete,
\* checksum-correct advertisement or echo reply sent from our own address,
\* never the inbound message unmodified.
C4_ZeroOrOutbound ==
  Returned =>
    \/ d_len = 0
    \/ /\ d_buf.type \in {136, 129}
       /\ d_buf.srcipaddr = OwnAddr
       /\ ChecksumValid(d_buf, d_len)
       /\ d_buf # inp.buf

\* C5: an echo reply received with no callback registered is dropped with
\* dropped + 1 and type_error unchanged.
C5_ReplyNoWaiter ==
  (Returned /\ InType = 129 /\ inp.cb = <<>>) =>
    /\ d_len = 0
    /\ g_netstats.drop = pre.drop + 1
    /\ g_netstats.typeerr = pre.typeerr

\* C6: a message of any other type counts type_error + 1 and dropped + 1,
\* gets length 0, sends nothing, and reaches neither the neighbor table nor
\* the callback chain.
C6_UnknownType ==
  (Returned /\ InType \notin {135, 128, 129}) =>
    /\ g_netstats.typeerr = pre.typeerr + 1
    /\ g_netstats.drop = pre.drop + 1
    /\ d_len = 0
    /\ g_netstats.sent = pre.sent
    /\ g_netstats.ipsent = pre.ipsent
    /\ neighbor_calls = <<>>
    /\ callback_calls = <<>>

C6_Witness ==
  /\ Returned /\ InType = 200 /\ inp.cb # <<>>
  /\ g_netstats.typeerr = 1 /\ g_netstats.drop = 1

\* a registered waiter waits for the identifier of the received reply
WaiterClaims ==
  /\ inp.cb # <<>>
  /\ \E i \in 1..Len(inp.cb) : inp.cb[i].id = <<inp.buf.flags, inp.buf.reserved1>>

\* C7: an echo reply that a registered waiter claims runs the callback chain
\* exactly once, with the unclaimed event, leaves dropped and type_error
\* unchanged, and the handler does not set the length to 0: the length is
\* what the callback chain left.
C7_ClaimedReply ==
  (Returned /\ InType = 129 /\ WaiterClaims) =>
    /\ Len(callback_calls) = 1
    /\ callback_calls[1].flags = ICMPv6_ECHOREPLY
    /\ callback_calls[1].ret # ICMPv6_ECHOREPLY
    /\ g_netstats.drop = pre.drop
    /\ g_netstats.typeerr = pre.typeerr
    /\ d_len = callback_calls[1].len

C7_Witness ==
  /\ Returned /\ InType = 129 /\ WaiterClaims
  /\ Len(callback_calls) = 1 /\ callback_calls[1].ret = 0
  /\ g_netstats.drop = 0 /\ d_len = 72

\* C8: an echo reply that no registered waiter claims is dropped: length 0,
\* dropped + 1, type_error and sent unchanged.
C8_UnclaimedReply ==
  (Returned /\ InType = 129 /\ inp.cb # <<>> /\ ~WaiterClaims) =>
    /\ d_len = 0
    /\ g_netstats.drop = pre.drop + 1
    /\ g_netstats.typeerr = pre.typeerr
    /\ g_netstats.sent = pre.sent
    /\ g_netstats.ipsent = pre.ipsent

C8_Witness ==
  /\ Returned /\ InType = 129 /\ inp.cb # <<>> /\ ~WaiterClaims
  /\ Len(callback_calls) = 1 /\ callback_calls[1].ret = ICMPv6_ECHOREPLY
  /\ d_len = 0 /\ g_netstats.drop = 1

\* C9: a solicitation for our address whose source link-layer option does
\* not lie inside the declared length is rejected: length 0, dropped + 1,
\* no neighbor-table call, no advertisement, no read past the declared
\* length.
C9_MalformedOptionRejected ==
  (SolicitForUs /\ inp.buf.options[1] = 1 /\ inp.len < 72) =>
    /\ d_len = 0
    /\ g_netstats.drop = pre.drop + 1
    /\ neighbor_calls = <<>>
    /\ d_buf.type # 136
    /\ rd_end <= inp.len

\* C10: an emitted advertisement or echo reply has equal source and
\* destination addresses only if the inbound message had.
C10_NoSelfAddressedReply ==
  (Returned /\ InType \in {135, 128} /\ d_len # 0) =>
    (d_buf.srcipaddr = d_buf.destipaddr =>
       inp.buf.srcipaddr = inp.buf.destipaddr)

\* C11: both emitting paths zero the checksum field after the other
\* rewrites and store the complement of the checksum over the final
\* pseudo-header + message, so the emitted message validates.
C11_EmittedChecksumValid ==
  (Returned /\ (InType = 128 \/ (InType = 135 /\ inp.buf.icmpv6data = OwnAddr))) =>
    /\ d_buf.icmpv6chksum =
         65535 - icmpv6_chksum([d_buf EXCEPT !.icmpv6chksum = 0], d_len)
    /\ ChecksumValid(d_buf, d_len)

\* the same for the messages whose declared length covers the checksum field
C11_ValidWhenCovered ==
  (Returned /\ inp.len >= 44
     /\ (InType = 128 \/ (InType = 135 /\ inp.buf.icmpv6data = OwnAddr))) =>
    ChecksumValid(d_buf, d_len)

\* a step of the handler, from entry to return
HandlerStep == pc = "input" /\ pc' = "done"

\* C12: an invocation emits a neighbor advertisement exactly when the packet
\* it processes is a solicitation for our address, and no other step puts a
\* message into the buffer: advertisements and matching solicitations pair
\* off one to one, with no later re-emission.
C12_OneAdvertPerSolicit ==
  [][/\ HandlerStep =>
          ((d_len' # 0 /\ d_buf'.type = 136)
             <=> (d_buf.type = 135 /\ d_buf.icmpv6data = OwnAddr))
     /\ (~HandlerStep /\ pc' # "input") => (d_buf' = d_buf /\ d_len' = d_len)
    ]_vars

C12_Witness ==
  /\ Returned /\ InType = 135 /\ inp.buf.icmpv6data = OwnAddr
  /\ d_buf.type = 136 /\ d_len = 72
  /\ g_netstats.recv = 2 /\ g_netstats.sent = 2

\* C13: in a solicitation for our address, an option of another kind is
\* skipped: a source link-layer option that follows it still produces the
\* neighbor-table call with that option's hardware address.
C13_LaterSourceOptionUsed ==
  (SolicitForUs /\ inp.len = 80
     /\ inp.buf.options[1] = 14 /\ inp.buf.options[2] = 1
     /\ inp.buf.tail[1] = 1 /\ inp.buf.tail[2] = 1) =>
    neighbor_calls = << <<inp.buf.srcipaddr, SubSeq(inp.buf.tail, 3, 8)>> >>

\* C14: the advertisement carries exactly one option: whatever followed the
\* first eight option bytes of the solicitation is not part of the emitted
\* message, whose length covers the header and that one option only.
C14_SingleOptionEmitted ==
  (SolicitForUs /\ inp.len > 72) => d_len = 72

\* C15: a buffer whose declared length does not cover an ICMPv6 header has
\* none of its ICMPv6 fields read, is not rewritten and causes no
\* neighbor-table call and no callback dispatch.
C15_ShortBufferUntouched ==
  (Returned /\ inp.len < 44) =>
    /\ rd_end = 0
    /\ d_buf = inp.buf
    /\ neighbor_calls = <<>>
    /\ callback_calls = <<>>

\* C16: a solicitation for our address whose first option is not a source
\* link-layer option makes no neighbor-table call and is still answered by
\* the same advertisement, with dropped and type_error unchanged.
C16_NoOptionStillAnswered ==
  (SolicitForUs /\ inp.buf.options[1] # 1) =>
    /\ neighbor_calls = <<>>
    /\ d_len = inp.len /\ d_len # 0
    /\ d_buf.type = 136
    /\ d_buf.flags = 64
    /\ d_buf.reserved1 = 0 /\ d_buf.reserved2 = 0 /\ d_buf.reserved3 = 0
    /\ d_buf.srcipaddr = OwnAddr
    /\ d_buf.destipaddr = inp.buf.srcipaddr
    /\ d_buf.options = <<2, 1>> \o OwnMac
    /\ g_netstats.drop = pre.drop
    /\ g_netstats.typeerr = pre.typeerr
    /\ g_netstats.sent = pre.sent + 1

C16_Witness ==
  /\ SolicitForUs /\ inp.buf.options[1] = 14 /\ inp.len = 72
  /\ inp.buf.srcipaddr = PeerAddr
  /\ neighbor_calls = <<>> /\ d_buf.type = 136 /\ d_buf.destipaddr = PeerAddr

\* C17: processing an inbound echo reply, claimed or not, never increments
\* the send counters.
C17_DispatchNotCountedSent ==
  (Returned /\ InType = 129) =>
    /\ g_netstats.sent = pre.sent
    /\ g_netstats.ipsent = pre.ipsent

\* C18: the advertisement leaves on an Ethernet link with frame destination
\* = the inbound frame's source and frame source = our hardware address; on
\* any other link type the link-layer header is left as received.
C18_EthernetHeader ==
  SolicitForUs =>
    IF d_lltype = 0
    THEN d_buf.ethdest = inp.buf.ethsrc /\ d_buf.ethsrc = OwnMac
    ELSE d_buf.ethdest = inp.buf.ethdest /\ d_buf.ethsrc = inp.buf.ethsrc

C18_Witness ==
  /\ SolicitForUs /\ d_lltype = 0 /\ d_buf.type = 136
  /\ inp.buf.ethsrc = OtherMac /\ d_buf.ethdest = OtherMac
  /\ d_buf.ethsrc = OwnMac

CountersBalanced ==
  /\ g_netstats.recv = g_netstats.sent + g_netstats.drop
  /\ g_netstats.typeerr <= g_netstats.drop

EndsAsDrop ==
  /\ g_netstats.drop = pre.drop + 1
  /\ g_netstats.sent = pre.sent
  /\ d_len = 0

\* the length the handler found: as received, or as the callback chain
\* left it when the chain was run
LengthHanded ==
  IF callback_calls = <<>> THEN inp.len ELSE callback_calls[1].len

C20_NeighborTableFrame ==
  [][HandlerStep =>
       /\ neighbor_calls' # <<>> =>
            (d_buf.type = 135 /\ d_buf.icmpv6data = OwnAddr)
       /\ g_echocallback' = g_echocallback
    ]_vars

C20_Witness ==
  /\ Returned /\ InType = 135 /\ inp.buf.icmpv6data = OtherAddr
  /\ inp.buf.options[1] = 1 /\ inp.len = 72
  /\ neighbor_calls = <<>> /\ inp.cb # <<>> /\ g_echocallback = inp.cb

====
